---- MODULE Spec2Model ----
(***************************************************************************)
(* Model of the file date-prefix renaming tool (src/1.0.1.py).             *)
(*                                                                         *)
(* File names are sequences of one-character strings, so that the regular  *)
(* expressions, os.path.splitext and the f-string concatenations of the    *)
(* source are computed character by character.  A path is a record         *)
(* [dir, name]; the filesystem maps each existing path to the file's       *)
(* content and timestamps.                                                 *)
(***************************************************************************)
EXTENDS Integers, Sequences, FiniteSets, TLC

VARIABLES
    fs,               \* the directory tree: path -> [content, ctime, mtime] and,
                      \* for the properties, the path the file had at first
                      \* (origin) and the operations that renamed it (renames)
    time_type,        \* RenamingWorker.time_type
    operation_mode,   \* RenamingWorker.operation_mode
    total_files,      \* RenamingWorker.total_files
    processed_files,  \* RenamingWorker.processed_files
    main,             \* position of RenamingWorker.run
    todo,             \* files yielded by os.walk and not yet submitted
    task,             \* one submitted unit of work per file: its locals and position
    events,           \* the stream of progress(int, str) emissions, in order
    finished,         \* number of emissions of the finished signal, one per run
    faults,           \* OS calls that have raised for an outside reason
    call              \* a call of one of the pure name functions on its own:
                      \* the function, its arguments and what it returned

vars == <<fs, time_type, operation_mode, total_files, processed_files, main,
          todo, task, events, finished, faults, call>>

-----------------------------------------------------------------------------
(* Bounds of the model *)

\* most files in the tree when the run starts
MaxFiles == 2
\* most OS calls that raise for a reason outside the program (permissions, ...)
MaxFaults == 1
\* longest name body the pure functions are called on, after a head of date prefixes
MaxBody == 2
\* most runs started from the window, where runs are repeated
MaxRuns == 2

-----------------------------------------------------------------------------
(* Characters and decimal formatting *)

DigitChars == <<"0", "1", "2", "3", "4", "5", "6", "7", "8", "9">>

IsDigit(c) == \E i \in 1..Len(DigitChars) : DigitChars[i] = c

\* str(n) of an f-string, n >= 0
RECURSIVE IntToStr(_)
IntToStr(n) ==
    IF n < 10 THEN <<DigitChars[n + 1]>>
    ELSE IntToStr(n \div 10) \o <<DigitChars[(n % 10) + 1]>>

\* zero padding of strftime's %Y (4), %m and %d (2)
RECURSIVE ZeroPad(_, _)
ZeroPad(s, w) == IF Len(s) >= w THEN s ELSE ZeroPad(<<"0">> \o s, w)

\* the local calendar date of a Unix timestamp (datetime.fromtimestamp), the
\* host's zone taken as UTC: <<year, month, day>>
CivilFromTimestamp(ts) ==
    LET days == ts \div 86400
        z    == days + 719468
        era  == z \div 146097
        doe  == z - era * 146097
        yoe  == (doe - (doe \div 1460) + (doe \div 36524) - (doe \div 146096)) \div 365
        doy  == doe - (365 * yoe + (yoe \div 4) - (yoe \div 100))
        mp   == (5 * doy + 2) \div 153
        d    == doy - ((153 * mp + 2) \div 5) + 1
        m    == IF mp < 10 THEN mp + 3 ELSE mp - 9
        y    == yoe + era * 400 + (IF m <= 2 THEN 1 ELSE 0)
    IN  <<y, m, d>>

\* a slip: "%Y-%m-%d" without the zero padding of month and day
FormatDateUnpadded(ts) ==
    LET c == CivilFromTimestamp(ts)
    IN  ZeroPad(IntToStr(c[1]), 4) \o <<"-">> \o IntToStr(c[2]) \o <<"-">> \o IntToStr(c[3])

\* datetime.datetime.fromtimestamp(file_time).strftime("%Y-%m-%d")
FormatDate(ts) ==
    LET c == CivilFromTimestamp(ts)
    IN  ZeroPad(IntToStr(c[1]), 4) \o <<"-">> \o ZeroPad(IntToStr(c[2]), 2)
          \o <<"-">> \o ZeroPad(IntToStr(c[3]), 2)

\* date_prefix = f"{date_formatted} "
DatePrefixOf(ts) == FormatDate(ts) \o <<" ">>

-----------------------------------------------------------------------------
(* FileRenamer: the pure name functions *)

\* a slip in the character class: the backslash escapes the slash and is not
\* itself in the class
IllegalCharsNoBackslash == {"/", "*", "?", ":", "\"", "<", ">", "|"}

IllegalChars == {"\\", "/", "*", "?", ":", "\"", "<", ">", "|"}

\* re.sub(r'[\\/*?:"<>|]', "_", filename)
clean_filename(filename) ==
    [i \in 1..Len(filename) |->
        IF filename[i] \in IllegalChars THEN "_" ELSE filename[i]]

\* str.startswith
StartsWith(s, prefix) ==
    /\ Len(s) >= Len(prefix)
    /\ \A i \in 1..Len(prefix) : s[i] = prefix[i]

\* a match of r"^\d{4}-\d{2}-\d{2} " at the start of s
MatchesDatePrefix(s) ==
    /\ Len(s) >= 11
    /\ \A i \in {1, 2, 3, 4, 6, 7, 9, 10} : IsDigit(s[i])
    /\ s[5] = "-"
    /\ s[8] = "-"
    /\ s[11] = " "

has_valid_date_prefix(file, date_prefix) ==
    StartsWith(clean_filename(file), date_prefix)

\* a slip: the prefix is left in place
remove_date_prefix_kept(file) == file

remove_date_prefix(file) ==
    IF MatchesDatePrefix(file) THEN SubSeq(file, 12, Len(file)) ELSE file

\* a slip: every name is taken to carry a prefix
has_yy_mm_dd_prefix_any(file) == Len(file) >= 0

has_yy_mm_dd_prefix(file) == MatchesDatePrefix(clean_filename(file))

\* a slip: the date is removed and the space after it is left
remove_yy_mm_dd_prefix_date_only(file) ==
    IF MatchesDatePrefix(file) THEN SubSeq(file, 11, Len(file)) ELSE file

remove_yy_mm_dd_prefix(file) ==
    IF MatchesDatePrefix(file) THEN SubSeq(file, 12, Len(file)) ELSE file

\* largest index of c in s, 0 when absent (str.rfind + 1)
RECURSIVE RFind(_, _, _)
RFind(s, c, i) ==
    IF i = 0 THEN 0 ELSE IF s[i] = c THEN i ELSE RFind(s, c, i - 1)

\* os.path.splitext of a base name: the extension starts at the last dot,
\* unless only dots precede that dot
splitext(base_name) ==
    LET dot == RFind(base_name, ".", Len(base_name))
    IN  IF dot > 0 /\ \E i \in 1..(dot - 1) : base_name[i] # "."
        THEN <<SubSeq(base_name, 1, dot - 1), SubSeq(base_name, dot, Len(base_name))>>
        ELSE <<base_name, <<>> >>

\* os.path.dirname, os.path.basename, os.path.join on [dir, name] paths
dirname(path) == path.dir
basename(path) == path.name
join(dir, name) == [dir |-> dir, name |-> name]

-----------------------------------------------------------------------------
(* The filesystem and the OS calls *)

NoPath == [dir |-> "", name |-> <<>>]

exists(path) == path \in DOMAIN fs

\* os.path.getsize of an existing file
getsize(path) == Len(fs[path].content)

block_size == 65536

\* f.read(block_size) at offset pos
ReadBlock(content, pos) ==
    SubSeq(content, pos + 1,
           IF pos + block_size < Len(content) THEN pos + block_size ELSE Len(content))

\* the loop of calculate_file_hash: the hasher is fed block after block until a
\* read returns no data; the digest is modelled as the byte stream fed (md5
\* taken as collision free)
RECURSIVE HashLoop(_, _, _)
HashLoop(content, pos, hasher) ==
    LET data == ReadBlock(content, pos)
    IN  IF data = <<>> THEN hasher
        ELSE HashLoop(content, pos + Len(data), hasher \o data)

calculate_file_hash(filepath) == <<"md5", HashLoop(fs[filepath].content, 0, <<>>)>>

\* check_duplicate_file of two existing files
check_duplicate_file(file_path, new_path) ==
    IF getsize(file_path) # getsize(new_path) THEN FALSE
    ELSE calculate_file_hash(file_path) = calculate_file_hash(new_path)

\* get_file_time of an existing file, for the two values the window sets
get_file_time(filepath, tt) ==
    IF tt = "creation" THEN fs[filepath].ctime ELSE fs[filepath].mtime

\* the tree after os.remove(path)
Removed(path) == [q \in DOMAIN fs \ {path} |-> fs[q]]

\* the tree after os.rename(src, dst) has succeeded (a file at dst is replaced)
Renamed(src, dst, op) ==
    [q \in (DOMAIN fs \ {src}) \cup {dst} |->
        IF q = dst THEN [fs[src] EXCEPT !.renames = Append(@, op)] ELSE fs[q]]

-----------------------------------------------------------------------------
(* handle_filename_conflict *)

\* a slip in the loop body: the counter appended after the extension
ConflictCandidateAfterExt(desired, conflict_count) ==
    join(dirname(desired),
         basename(desired) \o <<"_">> \o IntToStr(conflict_count))

\* a slip in the loop body: the counter is not used, every retry is "_1"
ConflictCandidateFirst(desired, conflict_count) ==
    LET name_parts == splitext(basename(desired))
    IN  join(dirname(desired), name_parts[1] \o <<"_", "1">> \o name_parts[2])

\* the candidate of the loop body: f"{base_name_without_ext}_{conflict_count}{file_ext}"
\* joined to the directory of the desired path
ConflictCandidate(desired, conflict_count) ==
    LET base_dir   == dirname(desired)
        name_parts == splitext(basename(desired))
        new_name   == name_parts[1] \o <<"_">> \o IntToStr(conflict_count) \o name_parts[2]
    IN  join(base_dir, new_name)

-----------------------------------------------------------------------------
(* Initial states: a tree of at most MaxFiles files, and the window's choices *)

Stem == <<"r", ".", "t">>

\* what the files' timestamps may be: noon of 2024-03-05 and of 2024-03-06 (UTC)
Times == {1709640000, 1709726400}

EarlierTime == CHOOSE t \in Times : \A u \in Times : t <= u
LaterTime == CHOOSE t \in Times : \A u \in Times : u <= t

Dated(ts, name) == DatePrefixOf(ts) \o name

\* names without, with one and with two date prefixes; one with illegal
\* characters and no extension
NameUniverse ==
    {Stem, <<"r", ":", "t">>}
      \cup {Dated(t, Stem) : t \in Times}
      \cup {Dated(LaterTime, Dated(EarlierTime, Stem))}

PathUniverse ==
    {join("top", n) : n \in NameUniverse} \cup {join("top/sub", Stem)}

Contents == {<<7>>, <<8>>}

\* a file whose two timestamps fall on different days
FileRecords(path) ==
    {[content |-> c, ctime |-> tp[1], mtime |-> tp[2], origin |-> path,
      renames |-> <<>>] :
        c \in Contents, tp \in {x \in Times \X Times : x[1] # x[2]}}

InitialTrees ==
    UNION {{tree \in [S -> UNION {FileRecords(q) : q \in S}] :
               \A q \in S : tree[q].origin = q} :
           S \in {T \in SUBSET PathUniverse : Cardinality(T) <= MaxFiles}}

\* no pure function is being called on its own
NoCall == [fn |-> "none", file |-> <<>>, file_time |-> 0, returned |-> <<>>]

\* the locals of a unit of work before FileRenamer has computed anything
IdleTask ==
    [pc |-> "start", new_name |-> <<>>, new_path |-> NoPath, conflict_count |-> 0,
     count_read |-> 0, correct |-> FALSE, dest |-> "none", removed |-> FALSE,
     moved_to |-> NoPath]

Init ==
    /\ fs \in InitialTrees
    /\ time_type \in {"creation", "modification"}
    /\ operation_mode \in {"add_prefix", "restore_name"}
    /\ total_files = 0
    /\ processed_files = 0
    /\ main = "count"
    /\ todo = {}
    /\ task = <<>>
    /\ events = <<>>
    /\ finished = 0
    /\ faults = 0
    /\ call = NoCall

-----------------------------------------------------------------------------
(* Emissions of the progress signal *)

Event(value, kind, file, to) == [value |-> value, kind |-> kind, file |-> file, to |-> to]

Emit(es) == events' = events \o es

\* the kinds of message FileRenamer has emitted about file p
Reported(p) == {events[i].kind : i \in {j \in 1..Len(events) : events[j].file = p}}

-----------------------------------------------------------------------------
(* RenamingWorker.run *)

\* total_files = sum(len(files) ...); processed_files = 0
RunCount ==
    /\ main = "count"
    /\ total_files' = Cardinality(DOMAIN fs)
    /\ processed_files' = 0
    /\ main' = "walk"
    /\ UNCHANGED <<call, fs, time_type, operation_mode, todo, task, events, finished, faults>>

\* the second os.walk lists the files; a directory is listed before any unit of
\* work on its files exists, and a unit renames only inside its own directory
RunWalk ==
    /\ main = "walk"
    /\ todo' = DOMAIN fs
    /\ main' = "submit"
    /\ UNCHANGED <<call, fs, time_type, operation_mode, total_files, processed_files,
                   task, events, finished, faults>>

\* executor.submit(self.rename_file_with_date | self.restore_original_name, file_path)
Submit(p) ==
    /\ main = "submit"
    /\ p \in todo
    /\ operation_mode \in {"add_prefix", "restore_name"}
    /\ todo' = todo \ {p}
    /\ task' = [q \in DOMAIN task \cup {p} |-> IF q = p THEN IdleTask ELSE task[q]]
    /\ UNCHANGED <<call, fs, time_type, operation_mode, total_files, processed_files,
                   main, events, finished, faults>>

\* a slip: the final emission made once everything is submitted, without the join
EmitAllDoneAfterSubmit ==
    /\ main = "submit"
    /\ todo = {}
    /\ events' = events \o <<[value |-> 0, kind |-> "AllDone",
                              file |-> [dir |-> "", name |-> <<>>], to |-> <<>>]>>
    /\ main' = "alldone"
    /\ UNCHANGED <<call, fs, time_type, operation_mode, total_files, processed_files,
                   todo, task, finished, faults>>

\* leaving the with block joins every submitted unit (executor.shutdown(wait=True));
\* then progress.emit(0, "all done")
EmitAllDone ==
    /\ main = "submit"
    /\ todo = {}
    /\ \A p \in DOMAIN task : task[p].pc = "done"
    /\ Emit(<<Event(0, "AllDone", NoPath, <<>>)>>)
    /\ main' = "alldone"
    /\ UNCHANGED <<call, fs, time_type, operation_mode, total_files, processed_files,
                   todo, task, finished, faults>>

\* finished.emit()
EmitFinished ==
    /\ main = "alldone"
    /\ finished' = finished + 1
    /\ main' = "finished"
    /\ UNCHANGED <<call, fs, time_type, operation_mode, total_files, processed_files,
                   todo, task, events, faults>>

-----------------------------------------------------------------------------
(* FileRenamer.rename_file_with_date and FileRenamer.restore_original_name,    *)
(* run by the unit of work of file p.  Each action is one step of the method   *)
(* between two of its accesses to the filesystem; the message a step emits is  *)
(* part of the step.                                                           *)

SetTask(p, r) == task' = [task EXCEPT ![p] = r]

\* a slip: no handler, the exception leaves the unit of work, whose future
\* swallows it
FailPropagates(p) ==
    /\ UNCHANGED events
    /\ SetTask(p, [task[p] EXCEPT !.pc = "done"])

\* except Exception as e: progress.emit(1, "[error] ..."); the method returns
Fail(p) ==
    /\ Emit(<<Event(1, "Failed", p, <<>>)>>)
    /\ SetTask(p, [task[p] EXCEPT !.pc = "inc_read"])

\* what the computed destination holds when the method starts
DestState(p, desired) ==
    IF desired = p THEN "self"
    ELSE IF ~exists(desired) THEN "free"
    ELSE IF fs[desired].content = fs[p].content THEN "same"
    ELSE "differs"

\* rename_file_with_date up to the call of handle_filename_conflict
AddPrefixBegin(p) ==
    /\ p \in DOMAIN task
    /\ task[p].pc = "start"
    /\ operation_mode = "add_prefix"
    /\ IF ~exists(p)
       THEN Fail(p)
       ELSE LET file_time     == get_file_time(p, time_type)
                date_prefix   == DatePrefixOf(file_time)
                original_name == basename(p)
                cleaned_name  == clean_filename(original_name)
                name_without_prefix == remove_date_prefix(cleaned_name)
                new_name      == date_prefix \o name_without_prefix
                new_path      == join(dirname(p), new_name)
            IN  IF has_valid_date_prefix(name_without_prefix, date_prefix)
                THEN /\ Emit(<<Event(1, "AlreadyCorrect", p, <<>>)>>)
                     /\ SetTask(p, [task[p] EXCEPT !.pc = "inc_read",
                                                   !.new_name = new_name,
                                                   !.correct = (cleaned_name = new_name),
                                                   !.dest = DestState(p, new_path)])
                ELSE /\ SetTask(p, [task[p] EXCEPT !.pc = "probe",
                                                   !.new_name = new_name,
                                                   !.new_path = new_path,
                                                   !.conflict_count = 0,
                                                   !.correct = (cleaned_name = new_name),
                                                   !.dest = DestState(p, new_path)])
                     /\ UNCHANGED events
    /\ UNCHANGED <<call, fs, time_type, operation_mode, total_files, processed_files,
                   main, todo, finished, faults>>

\* restore_original_name up to the call of handle_filename_conflict
RestoreBegin(p) ==
    /\ p \in DOMAIN task
    /\ task[p].pc = "start"
    /\ operation_mode = "restore_name"
    /\ LET original_name == basename(p)
           cleaned_name  == clean_filename(original_name)
           new_name      == remove_yy_mm_dd_prefix(cleaned_name)
           new_path      == join(dirname(p), new_name)
       IN  IF ~has_yy_mm_dd_prefix(cleaned_name)
           THEN /\ Emit(<<Event(1, "SkippedNotEligible", p, <<>>)>>)
                /\ SetTask(p, [task[p] EXCEPT !.pc = "inc_read"])
           ELSE /\ SetTask(p, [task[p] EXCEPT !.pc = "probe",
                                              !.new_name = new_name,
                                              !.new_path = new_path,
                                              !.conflict_count = 0,
                                              !.dest = IF exists(p)
                                                       THEN DestState(p, new_path)
                                                       ELSE "none"])
                /\ UNCHANGED events
    /\ UNCHANGED <<call, fs, time_type, operation_mode, total_files, processed_files,
                   main, todo, finished, faults>>

\* handle_filename_conflict: one evaluation of `while os.path.exists(new_path)`,
\* with the loop body when it is true and the return when it is false
\* (conflict_files is the empty dict of the caller, so the count starts at 0)
ConflictProbe(p) ==
    /\ p \in DOMAIN task
    /\ task[p].pc = "probe"
    /\ LET desired == join(dirname(p), task[p].new_name)
           conflict_count == task[p].conflict_count + 1
       IN  IF exists(task[p].new_path)
           THEN SetTask(p, [task[p] EXCEPT !.conflict_count = conflict_count,
                                           !.new_path = ConflictCandidate(desired, conflict_count)])
           ELSE SetTask(p, [task[p] EXCEPT !.pc = "exists"])
    /\ UNCHANGED <<call, fs, time_type, operation_mode, total_files, processed_files,
                   main, todo, events, finished, faults>>

\* if os.path.exists(new_path):
ExistsCheck(p) ==
    /\ p \in DOMAIN task
    /\ task[p].pc = "exists"
    /\ SetTask(p, [task[p] EXCEPT !.pc = IF exists(task[p].new_path) THEN "dup" ELSE "rename"])
    /\ UNCHANGED <<call, fs, time_type, operation_mode, total_files, processed_files,
                   main, todo, events, finished, faults>>

\* if check_duplicate_file(file_path, new_path): emit "[duplicate]" ... else:
\* emit "[skip]" and return; a file that is gone by now makes getsize raise
DuplicateCheck(p) ==
    /\ p \in DOMAIN task
    /\ task[p].pc = "dup"
    /\ IF ~exists(p) \/ ~exists(task[p].new_path)
       THEN Fail(p)
       ELSE IF check_duplicate_file(p, task[p].new_path)
       THEN /\ Emit(<<Event(1, "DuplicateRemoved", p, <<>>)>>)
            /\ SetTask(p, [task[p] EXCEPT !.pc = "remove"])
       ELSE /\ Emit(<<Event(1, "SkippedConflict", p, task[p].new_name)>>)
            /\ SetTask(p, [task[p] EXCEPT !.pc = "inc_read"])
    /\ UNCHANGED <<call, fs, time_type, operation_mode, total_files, processed_files,
                   main, todo, finished, faults>>

\* os.remove(new_path)
RemoveExisting(p) ==
    /\ p \in DOMAIN task
    /\ task[p].pc = "remove"
    /\ IF ~exists(task[p].new_path)
       THEN Fail(p) /\ UNCHANGED fs
       ELSE /\ fs' = Removed(task[p].new_path)
            /\ SetTask(p, [task[p] EXCEPT !.pc = "rename", !.removed = TRUE])
            /\ UNCHANGED events
    /\ UNCHANGED <<call, time_type, operation_mode, total_files, processed_files,
                   main, todo, finished, faults>>

\* os.rename(file_path, new_path), then emit "[success] ... renamed to {new_name}";
\* a file found at new_path is replaced, as rename(2) does
RenameFile(p) ==
    /\ p \in DOMAIN task
    /\ task[p].pc = "rename"
    /\ IF ~exists(p)
       THEN Fail(p) /\ UNCHANGED fs
       ELSE /\ fs' = Renamed(p, task[p].new_path, operation_mode)
            /\ Emit(<<Event(1, "Renamed", p, task[p].new_name)>>)
            /\ SetTask(p, [task[p] EXCEPT !.pc = "inc_read", !.moved_to = task[p].new_path])
    /\ UNCHANGED <<call, time_type, operation_mode, total_files, processed_files,
                   main, todo, finished, faults>>

\* os.rename where a rename onto an existing file raises FileExistsError (Windows)
RenameRefused(p) ==
    /\ p \in DOMAIN task
    /\ task[p].pc = "rename"
    /\ exists(p)
    /\ exists(task[p].new_path)
    /\ Fail(p)
    /\ UNCHANGED <<call, fs, time_type, operation_mode, total_files, processed_files,
                   main, todo, finished, faults>>

\* an OS call raises for a reason outside the program: getctime/getmtime, getsize
\* or open, os.remove, os.rename
OSError(p) ==
    /\ p \in DOMAIN task
    /\ \/ task[p].pc = "start" /\ operation_mode = "add_prefix"
       \/ task[p].pc \in {"dup", "remove", "rename"}
    /\ faults < MaxFaults
    /\ faults' = faults + 1
    /\ Fail(p)
    /\ UNCHANGED <<call, fs, time_type, operation_mode, total_files, processed_files,
                   main, todo, finished>>

-----------------------------------------------------------------------------
(* RenamingWorker.rename_file_with_date / restore_original_name after the call *)

\* self.processed_files += 1 reads the attribute ...
CounterRead(p) ==
    /\ p \in DOMAIN task
    /\ task[p].pc = "inc_read"
    /\ SetTask(p, [task[p] EXCEPT !.pc = "inc_write", !.count_read = processed_files])
    /\ UNCHANGED <<call, fs, time_type, operation_mode, total_files, processed_files,
                   main, todo, events, finished, faults>>

\* ... and stores the sum: the two are separate bytecodes, and threads switch between them
CounterWrite(p) ==
    /\ p \in DOMAIN task
    /\ task[p].pc = "inc_write"
    /\ processed_files' = task[p].count_read + 1
    /\ SetTask(p, [task[p] EXCEPT !.pc = "progress"])
    /\ UNCHANGED <<call, fs, time_type, operation_mode, total_files, main, todo,
                   events, finished, faults>>

\* int((processed_files / total_files) * 100), exact for the totals of the model
Percent(processed, total) == (processed * 100) \div total

\* progress.emit(int(...), "progress: k/n")
EmitProgress(p) ==
    /\ p \in DOMAIN task
    /\ task[p].pc = "progress"
    /\ total_files # 0
    /\ Emit(<<Event(Percent(processed_files, total_files), "Progress", NoPath, <<>>)>>)
    /\ SetTask(p, [task[p] EXCEPT !.pc = "done"])
    /\ UNCHANGED <<call, fs, time_type, operation_mode, total_files, processed_files,
                   main, todo, finished, faults>>

-----------------------------------------------------------------------------

Next ==
    \/ RunCount
    \/ RunWalk
    \/ \E p \in todo : Submit(p)
    \/ \E p \in DOMAIN task : AddPrefixBegin(p)
    \/ \E p \in DOMAIN task : RestoreBegin(p)
    \/ \E p \in DOMAIN task : ConflictProbe(p)
    \/ \E p \in DOMAIN task : ExistsCheck(p)
    \/ \E p \in DOMAIN task : DuplicateCheck(p)
    \/ \E p \in DOMAIN task : RemoveExisting(p)
    \/ \E p \in DOMAIN task : RenameFile(p)
    \/ \E p \in DOMAIN task : RenameRefused(p)
    \/ \E p \in DOMAIN task : OSError(p)
    \/ \E p \in DOMAIN task : CounterRead(p)
    \/ \E p \in DOMAIN task : CounterWrite(p)
    \/ \E p \in DOMAIN task : EmitProgress(p)
    \/ EmitAllDone
    \/ EmitFinished

Spec == Init /\ [][Next]_vars

-----------------------------------------------------------------------------
(* The window: runs repeated *)

\* start_processing once finished has enabled the start button again: a new
\* RenamingWorker and new WorkerSignals, with the mode and the time type the combo
\* boxes show by then
start_processing ==
    /\ main = "finished"
    /\ finished < MaxRuns
    /\ time_type' \in {"creation", "modification"}
    /\ operation_mode' \in {"add_prefix", "restore_name"}
    /\ total_files' = 0
    /\ processed_files' = 0
    /\ main' = "count"
    /\ todo' = {}
    /\ task' = <<>>
    /\ events' = <<>>
    /\ UNCHANGED <<call, fs, finished, faults>>

\* the initial trees whose files all have one content
RerunTrees ==
    {tree \in InitialTrees : \A q \in DOMAIN tree : tree[q].content = <<7>>}

RerunInit == Init /\ fs \in RerunTrees

RerunNext == Next \/ start_processing

RerunSpec == RerunInit /\ [][RerunNext]_vars

\* some step is possible as long as run has not emitted finished: Next is
\* enabled exactly in these states
Running == main # "finished"

\* The interpreter keeps running some thread that can run: weak fairness of
\* Next, WF_vars(Next), written out as "infinitely often disabled or infinitely
\* often taken" with the state predicate that ENABLED <<Next>>_vars equals.
Fairness == []<>(~Running) \/ []<><<Next>>_vars

FairSpec == Spec /\ Fairness

-----------------------------------------------------------------------------
(* Vocabulary of the properties *)

\* FileRenamer's method has returned to the unit of work of p
Returned(p) == task[p].pc \in {"inc_read", "inc_write", "progress", "done"}

\* the destination rename_file_with_date / restore_original_name computed first
Desired(p) == join(dirname(p), task[p].new_name)

\* the positions in the stream of the emissions of one kind
PositionsOf(kind) == {i \in 1..Len(events) : events[i].kind = kind}

-----------------------------------------------------------------------------
(* C1 *)

\* C1 (as claimed): a file whose sanitized name already is the date prefix of its
\* timestamp followed by its stripped name is reported AlreadyCorrect by
\* rename_file_with_date, and the call neither renames nor removes anything.
C1_AlreadyPrefixedIsNoOp ==
    \A p \in DOMAIN task :
        (operation_mode = "add_prefix" /\ task[p].correct /\ Returned(p)
           /\ "Failed" \notin Reported(p))
        => /\ Reported(p) = {"AlreadyCorrect"}
           /\ task[p].moved_to = NoPath
           /\ ~task[p].removed
           /\ p \in DOMAIN fs

-----------------------------------------------------------------------------
(* C2 *)

\* C2 (as claimed): when the computed destination exists with the same content as
\* the source, the call reports DuplicateRemoved, and right after it the source
\* file is the one file at the computed destination and the source name is gone.
C2_IdenticalCollisionIsDuplicateRemoved ==
    \A p \in DOMAIN task :
        (task[p].dest = "same" /\ task[p].pc = "inc_read"
           /\ "Failed" \notin Reported(p))
        => /\ "DuplicateRemoved" \in Reported(p)
           /\ Desired(p) \in DOMAIN fs
           /\ fs[Desired(p)].origin = p
           /\ p \notin DOMAIN fs

-----------------------------------------------------------------------------
(* C3 *)

\* C3 (as claimed): when the computed destination exists with a content other than
\* the source's, the call reports SkippedConflict and changes nothing: it renames
\* nothing, removes nothing, and the source keeps its name.
C3_DifferentCollisionIsSkipped ==
    \A p \in DOMAIN task :
        (task[p].dest = "differs" /\ task[p].pc = "inc_read"
           /\ "Failed" \notin Reported(p))
        => /\ Reported(p) = {"SkippedConflict"}
           /\ task[p].moved_to = NoPath
           /\ ~task[p].removed
           /\ p \in DOMAIN fs

-----------------------------------------------------------------------------
(* C4 *)

\* the step in which handle_filename_conflict returns to the unit of p
ConflictReturns(p) ==
    /\ p \in DOMAIN task
    /\ task[p].pc = "probe"
    /\ task'[p].pc = "exists"

\* C4: whenever handle_filename_conflict returns, the path it returns does not
\* exist at that evaluation of os.path.exists, lies in the directory of the desired
\* path and has the extension of the desired name (none when that has none).
C4_ConflictResultFreeSameDirSameExt ==
    [][\A p \in DOMAIN task :
          ConflictReturns(p)
          => /\ task'[p].new_path \notin DOMAIN fs
             /\ dirname(task'[p].new_path) = dirname(Desired(p))
             /\ splitext(basename(task'[p].new_path))[2]
                  = splitext(basename(Desired(p)))[2]]_vars

\* handle_filename_conflict has returned a path with a counter appended, of a name
\* that has an extension
C4_Witness ==
    \E p \in DOMAIN task :
        /\ task[p].pc = "exists"
        /\ task[p].conflict_count >= 1
        /\ task[p].new_path # Desired(p)
        /\ splitext(basename(Desired(p)))[2] # <<>>

-----------------------------------------------------------------------------
(* C5 *)

\* C5 (as claimed): in the state in which a call that reported Renamed or
\* DuplicateRemoved returns, the source file is the file at the path it was to be
\* renamed to, and nothing is left at the source path.
C5_ReportedSuccessLeavesOneFile ==
    [][\A p \in DOMAIN task :
          (/\ ~Returned(p)
           /\ task'[p].pc = "inc_read"
           /\ Reported(p)' \cap {"Renamed", "DuplicateRemoved"} # {})
          => /\ task'[p].new_path \in DOMAIN fs'
             /\ fs'[task'[p].new_path].origin = p
             /\ p \notin DOMAIN fs']_vars

-----------------------------------------------------------------------------
(* C8 *)

\* C8 (as claimed): a call that ended in Failed has changed nothing: it has renamed
\* nothing and has removed no file.
C8_FailedChangesNothing ==
    \A p \in DOMAIN task :
        "Failed" \in Reported(p)
        => /\ task[p].moved_to = NoPath
           /\ ~task[p].removed

-----------------------------------------------------------------------------
(* C10 *)

\* C10 (as claimed): over the stream of progress emissions of a run the percent
\* value never decreases and stays within 0..100.
C10_PercentMonotone ==
    /\ \A i \in 1..Len(events) : events[i].value \in 0..100
    /\ \A i \in 1..Len(events) : \A j \in i..Len(events) :
          events[i].value <= events[j].value

-----------------------------------------------------------------------------
(* C7 *)

FailedAbout(p) == {i \in PositionsOf("Failed") : events[i].file = p}

\* C7: every OS call that raised in the unit of a file became a Failed message, at
\* most one per file; and once the run emits "all done", every file that was
\* counted has been submitted and its unit has run to its end with a message about
\* the file.  Under fair scheduling a run in which a unit failed still finishes.
C7_FailureDoesNotAbortRun ==
    /\ [](\A p \in DOMAIN task : Cardinality(FailedAbout(p)) <= 1)
    /\ [](Cardinality(PositionsOf("Failed")) >= faults)
    /\ [](main \in {"alldone", "finished"}
            => /\ todo = {}
               /\ Cardinality(DOMAIN task) = total_files
               /\ \A p \in DOMAIN task : task[p].pc = "done" /\ Reported(p) # {})
    /\ (PositionsOf("Failed") # {}) ~> (main = "finished" /\ finished = 1)

\* the run has finished; one file failed and another was renamed
C7_Witness ==
    /\ main = "finished"
    /\ \E p, q \in DOMAIN task :
          /\ Reported(p) = {"Failed"}
          /\ "Renamed" \in Reported(q)
          /\ task[p].pc = "done"
          /\ task[q].pc = "done"

-----------------------------------------------------------------------------
(* C9 *)

\* C9: the "all done" emission is the last of the stream and is made, like the
\* finished signal, only when every submitted unit has run to its end; it is made
\* at most once, and under fair scheduling it is made.
C9_AllDoneAfterEveryUnit ==
    /\ [](\A i \in PositionsOf("AllDone") : i = Len(events))
    /\ []((PositionsOf("AllDone") # {} \/ finished > 0)
            => /\ todo = {}
               /\ \A p \in DOMAIN task : task[p].pc = "done")
    /\ [](finished > 0 => PositionsOf("AllDone") # {})
    /\ [](Cardinality(PositionsOf("AllDone")) <= 1)
    /\ <>[](Cardinality(PositionsOf("AllDone")) = 1)

\* "all done" has been emitted after the messages of two units
C9_Witness ==
    /\ Cardinality(DOMAIN task) >= 2
    /\ Len(events) >= 5
    /\ events[Len(events)].kind = "AllDone"
    /\ finished = 1

-----------------------------------------------------------------------------
(* C6 *)

\* how many date prefixes a name starts with
RECURSIVE LeadingDatePrefixes(_)
LeadingDatePrefixes(s) ==
    IF MatchesDatePrefix(s) THEN 1 + LeadingDatePrefixes(SubSeq(s, 12, Len(s))) ELSE 0

\* C6: over runs repeated in either mode and with either timestamp, a file whose
\* sanitized name started with at most one date prefix never has a name that
\* starts with two, and has a name that starts with exactly one whenever the
\* operation that renamed it last was AddPrefix.
C6_NeverDoublePrefixed ==
    \A q \in DOMAIN fs :
        LeadingDatePrefixes(clean_filename(basename(fs[q].origin))) <= 1
        => /\ LeadingDatePrefixes(basename(q)) <= 1
           /\ (fs[q].renames # <<>> /\ fs[q].renames[Len(fs[q].renames)] = "add_prefix")
                => LeadingDatePrefixes(basename(q)) = 1

\* a file that started with one date prefix has been renamed by AddPrefix in two
\* runs, the second with the timestamp of another day
C6_Witness ==
    \E q \in DOMAIN fs :
        /\ LeadingDatePrefixes(clean_filename(basename(fs[q].origin))) = 1
        /\ fs[q].renames = <<"add_prefix", "add_prefix">>
        /\ \E t \in Times :
              /\ StartsWith(basename(q), DatePrefixOf(t))
              /\ ~StartsWith(basename(fs[q].origin), DatePrefixOf(t))

-----------------------------------------------------------------------------
(* C11 *)

\* the path handle_filename_conflict tests after conflict_count retries
NthTry(p, conflict_count) ==
    IF conflict_count = 0 THEN Desired(p)
    ELSE LET name_parts == splitext(basename(Desired(p)))
         IN  join(dirname(Desired(p)),
                  name_parts[1] \o <<"_">> \o IntToStr(conflict_count) \o name_parts[2])

\* C11: handle_filename_conflict tests the desired path, then "_1", "_2", ... before
\* the extension, one retry per path found to exist, so never more retries than
\* paths that have existed (there is no attempt limit and no ConflictExhausted);
\* and under fair scheduling every call returns, also while other units create
\* files at the paths it is about to test: from some point on no unit is in the
\* loop.
C11_ConflictProbeTerminates ==
    /\ [](\A p \in DOMAIN task :
             /\ task[p].conflict_count <= 2 * total_files
             /\ task[p].pc = "probe" => task[p].new_path = NthTry(p, task[p].conflict_count))
    /\ <>[](\A p \in DOMAIN task : task[p].pc # "probe")

\* handle_filename_conflict has returned "_2": it found "_1" taken by a file that
\* another unit renamed there during this run
C11_Witness ==
    \E p \in DOMAIN task :
        /\ task[p].pc = "exists"
        /\ task[p].conflict_count = 2
        /\ \E q \in DOMAIN fs : q = NthTry(p, 1) /\ fs[q].renames # <<>>

-----------------------------------------------------------------------------
(* C12 *)

\* the kinds of message that tell the outcome of one file
OutcomeKinds ==
    {"AlreadyCorrect", "Renamed", "DuplicateRemoved", "SkippedConflict",
     "SkippedNotEligible", "Failed"}

\* the outcome messages about file p, by position in the stream
OutcomesAbout(p) ==
    {i \in 1..Len(events) : events[i].file = p /\ events[i].kind \in OutcomeKinds}

\* C12 (as claimed): a file dispatched to rename_file_with_date or
\* restore_original_name never has more than one outcome message, and has exactly
\* one once the method has returned.
C12_ExactlyOneOutcome ==
    \A p \in DOMAIN task :
        /\ Cardinality(OutcomesAbout(p)) <= 1
        /\ Returned(p) => Cardinality(OutcomesAbout(p)) = 1

-----------------------------------------------------------------------------
(* C13 *)

\* the unit of p runs restore_original_name on a name whose sanitized form does
\* not start with a date prefix
NotEligible(p) ==
    /\ operation_mode = "restore_name"
    /\ ~MatchesDatePrefix(clean_filename(basename(p)))

\* C13: restore_original_name on such a file never calls handle_filename_conflict,
\* os.remove or os.rename, and once it has returned, its one message about the file
\* is SkippedNotEligible and the file is where it was, never renamed.
C13_NotEligibleChangesNothing ==
    \A p \in DOMAIN task :
        NotEligible(p)
        => /\ task[p].pc \notin {"probe", "exists", "dup", "remove", "rename"}
           /\ task[p].conflict_count = 0
           /\ ~task[p].removed
           /\ task[p].moved_to = NoPath
           /\ Returned(p) => /\ Reported(p) = {"SkippedNotEligible"}
                             /\ Cardinality(OutcomesAbout(p)) = 1
                             /\ p \in DOMAIN fs
                             /\ fs[p].origin = p
                             /\ fs[p].renames = <<>>

\* a restore run has skipped a file without date prefix and renamed another one
C13_Witness ==
    \E p, q \in DOMAIN task :
        /\ NotEligible(p)
        /\ task[p].pc = "done"
        /\ Reported(p) = {"SkippedNotEligible"}
        /\ "Renamed" \in Reported(q)

-----------------------------------------------------------------------------
(* The pure name functions called on their own: clean_filename, and the name    *)
(* rename_file_with_date builds (lines 152-156) followed by remove_date_prefix  *)

\* characters of the names: a letter, a digit, the dot, the space, and three of
\* the characters clean_filename replaces
PureChars == {"r", "0", ".", " ", ":", "*", "\\"}

\* timestamps of the calls: the epoch, a leap day, the two days of the trees, and
\* the last second of a signed 32-bit time
PureTimes == Times \cup {0, 951782400, 2147483647}

\* what a name may start with: nothing, a date prefix, two date prefixes, a date
\* without the space, a date prefix with an illegal character for a dash, and a
\* date prefix that clean_filename leaves as one
PureHeads ==
    {<<>>}
      \cup {DatePrefixOf(t) : t \in PureTimes}
      \cup {DatePrefixOf(LaterTime) \o DatePrefixOf(EarlierTime)}
      \cup {FormatDate(EarlierTime)}
      \cup {[DatePrefixOf(EarlierTime) EXCEPT ![5] = ":"]}

PureBodies == UNION {[1..k -> PureChars] : k \in 0..MaxBody}

PureNames == {h \o b : h \in PureHeads, b \in PureBodies}

PureInit ==
    /\ fs = <<>>
    /\ time_type = "creation"
    /\ operation_mode = "add_prefix"
    /\ total_files = 0
    /\ processed_files = 0
    /\ main = "count"
    /\ todo = {}
    /\ task = <<>>
    /\ events = <<>>
    /\ finished = 0
    /\ faults = 0
    /\ call \in [fn : {"none"}, file : PureNames, file_time : PureTimes,
                 returned : {<<>>}]

Program == <<fs, time_type, operation_mode, total_files, processed_files, main,
             todo, task, events, finished, faults>>

\* cleaned_name = FileRenamer.clean_filename(original_name)
CallCleanFilename ==
    /\ call.fn = "none"
    /\ call' = [call EXCEPT !.fn = "clean_filename",
                            !.returned = clean_filename(call.file)]
    /\ UNCHANGED Program

\* clean_filename called on what clean_filename returned
CallCleanFilenameAgain ==
    /\ call.fn = "clean_filename"
    /\ call' = [call EXCEPT !.fn = "clean_filename_again",
                            !.returned = clean_filename(call.returned)]
    /\ UNCHANGED Program

\* name_without_prefix = remove_date_prefix(cleaned_name);
\* new_name = f"{date_prefix}{name_without_prefix}"
CallBuildNewName ==
    /\ call.fn = "clean_filename"
    /\ call' = [call EXCEPT !.fn = "new_name",
                            !.returned = DatePrefixOf(call.file_time)
                                           \o remove_date_prefix(call.returned)]
    /\ UNCHANGED Program

\* remove_date_prefix called on the name that was built
CallRemoveDatePrefix ==
    /\ call.fn = "new_name"
    /\ call' = [call EXCEPT !.fn = "remove_date_prefix",
                            !.returned = remove_date_prefix(call.returned)]
    /\ UNCHANGED Program

PureNext ==
    \/ CallCleanFilename
    \/ CallCleanFilenameAgain
    \/ CallBuildNewName
    \/ CallRemoveDatePrefix

PureSpec == PureInit /\ [][PureNext]_vars

-----------------------------------------------------------------------------
(* C14 *)

\* C14: for every sanitized name n and timestamp t, remove_date_prefix of the name
\* rename_file_with_date builds, the date prefix of t followed by
\* remove_date_prefix(n), is remove_date_prefix(n); the name built starts with the
\* eleven characters of the prefix and is that much longer.
C14_RemoveInvertsBuild ==
    LET n == clean_filename(call.file)
    IN  /\ call.fn = "new_name"
           => /\ MatchesDatePrefix(call.returned)
              /\ Len(call.returned) = 11 + Len(remove_date_prefix(n))
        /\ call.fn = "remove_date_prefix"
           => call.returned = remove_date_prefix(n)

\* the prefix has been removed from a name built from a name with two date
\* prefixes: what is left still starts with a date prefix
C14_Witness ==
    /\ call.fn = "remove_date_prefix"
    /\ MatchesDatePrefix(call.returned)
    /\ LeadingDatePrefixes(call.file) = 2
    /\ call.file_time \notin Times

-----------------------------------------------------------------------------
(* C15 *)

\* the nine characters the claim names
ClaimedIllegal == {"\\", "/", "*", "?", ":", "\"", "<", ">", "|"}

\* C15: clean_filename returns a string of the length of its argument that holds
\* none of \ / * ? : " < > |, has "_" where the argument held one of them and the
\* argument's character everywhere else; called on its own result it returns it
\* unchanged.
C15_CleanFilenameIdempotent ==
    /\ call.fn = "clean_filename"
       => /\ Len(call.returned) = Len(call.file)
          /\ \A i \in 1..Len(call.file) :
                /\ call.returned[i] \notin ClaimedIllegal
                /\ call.returned[i] = IF call.file[i] \in ClaimedIllegal
                                      THEN "_" ELSE call.file[i]
    /\ call.fn = "clean_filename_again"
       => /\ call.returned = clean_filename(call.file)
          /\ \A i \in 1..Len(call.returned) : call.returned[i] \notin ClaimedIllegal

\* clean_filename has been called twice on a name with a backslash and another
\* illegal character
C15_Witness ==
    /\ call.fn = "clean_filename_again"
    /\ \E i, j \in 1..Len(call.file) :
          /\ i # j
          /\ call.file[i] = "\\"
          /\ call.file[j] \in ClaimedIllegal \ {"\\"}
    /\ call.returned # call.file

-----------------------------------------------------------------------------
(* C16 *)

\* The unit of p, in a restore run, has renamed to q a file that
\*  - had at first a name that clean_filename leaves alone and that starts with no
\*    date prefix,
\*  - was renamed once before, by an add_prefix run that met no collision: p is
\*    the date prefix of one of the file's timestamps followed by that first name,
\*  - met no collision in this run: handle_filename_conflict did not retry, and
\*    no other unit computed the destination q.
RoundTrip(p, q) ==
    /\ operation_mode = "restore_name"
    /\ task[p].moved_to = q
    /\ q \in DOMAIN fs
    /\ fs[q].renames = <<"add_prefix", "restore_name">>
    /\ LET first == fs[q].origin
       IN  /\ clean_filename(basename(first)) = basename(first)
           /\ ~MatchesDatePrefix(basename(first))
           /\ \E t \in {fs[q].ctime, fs[q].mtime} :
                 p = join(dirname(first), DatePrefixOf(t) \o basename(first))
    /\ task[p].conflict_count = 0
    /\ \A r \in DOMAIN task \ {p} : task[r].new_path # q

\* C16: a file with a sanitized name without date prefix that an add_prefix run
\* and then a restore_name run have renamed, neither meeting a collision, is back
\* at its first path, with its content; and when that is so of every file of the
\* restore run, the tree has the paths it had at first and as many files as the
\* run counted.
C16_RestoreInvertsAddPrefix ==
    /\ \A p \in DOMAIN task : \A q \in DOMAIN fs :
          RoundTrip(p, q) => /\ fs[q].origin = q
                             /\ basename(q) = task[p].new_name
    /\ (/\ main = "finished"
        /\ \A p \in DOMAIN task : \E q \in DOMAIN fs : RoundTrip(p, q))
       => /\ DOMAIN fs = {fs[q].origin : q \in DOMAIN fs}
          /\ Cardinality(DOMAIN fs) = total_files

\* two files, one in each directory, have made the round trip, and the second run
\* has finished
C16_Witness ==
    /\ main = "finished"
    /\ finished = 2
    /\ Cardinality(DOMAIN task) = 2
    /\ \A p \in DOMAIN task : \E q \in DOMAIN fs : RoundTrip(p, q) /\ fs[q].origin = q

-----------------------------------------------------------------------------
(* C17 *)

\* the distinct contents of the files of a tree
ContentsIn(tree) == {tree[q].content : q \in DOMAIN tree}

\* C17 (as claimed): no step of a run loses a content: a file that a step removes
\* or replaces leaves a file of the same bytes in the tree, so the distinct
\* contents of the tree are those it had before the step.
C17_NoContentLost ==
    [][ContentsIn(fs') = ContentsIn(fs)]_vars

-----------------------------------------------------------------------------
(* C18 *)

\* C18 (as claimed): when finished is emitted, processed_files is the number of
\* units that were submitted, which is total_files, and, when there was a file,
\* some progress message of a unit carries 100.
C18_CounterLosesNoUpdate ==
    main = "finished"
    => /\ processed_files = Cardinality(DOMAIN task)
       /\ processed_files = total_files
       /\ DOMAIN task # {} => \E i \in PositionsOf("Progress") : events[i].value = 100

-----------------------------------------------------------------------------
(* C19 *)

\* C19 (as claimed): every Renamed message names the name the file was renamed
\* to: the path os.rename moved the file to is that name in the file's directory.
C19_ReportedDestinationIsReal ==
    \A i \in PositionsOf("Renamed") :
        /\ events[i].file \in DOMAIN task
        /\ task[events[i].file].moved_to = join(dirname(events[i].file), events[i].to)

-----------------------------------------------------------------------------
(* C20 *)

\* C20 (as claimed): a file that rename_file_with_date reports AlreadyCorrect has a
\* sanitized name that is the date prefix of its timestamp followed by its name
\* without date prefix, so a name with exactly one date prefix.
C20_AlreadyCorrectOnlyIfCorrect ==
    \A p \in DOMAIN task :
        "AlreadyCorrect" \in Reported(p)
        => /\ task[p].correct
           /\ LeadingDatePrefixes(clean_filename(basename(p))) = 1

====
